---- MODULE Spec2Model ----
(***************************************************************************)
(* A model of flask_nav/elements.py: the navigation item classes, their    *)
(* `active` and `get_url` members, ImageView.get_img_tag and               *)
(* NavigationItem.render, together with the request, routing and renderer  *)
(* registry state those members read.                                      *)
(*                                                                         *)
(* Every call returns an outcome record [status, val]: status "ok" with    *)
(* the returned value, or the name of the exception that propagates to the *)
(* caller.  A URL (and a request path) is the sequence of the string       *)
(* pieces it is concatenated from.                                         *)
(***************************************************************************)
EXTENDS Naturals, Sequences, FiniteSets, TLC

VARIABLES
  heap,         \* the item instances: object -> its class and fields
  routes,       \* the application's URL map: endpoint -> rule
  request,      \* whether a request is current, and its path
  registry,     \* the application's renderers: name -> renderer class
  defaultName,  \* the application's default renderer name
  last,         \* the latest call and its outcome
  ctor,         \* the items each container's constructor was given
  appended      \* the items appended to each container since, in order

vars == <<heap, routes, request, registry, defaultName, last, ctor, appended>>

\* Python's None
None == "None"

\* how many items the application appends to the containers after construction
MaxAppends == 2

Ok(v) == [status |-> "ok", val |-> v]

Err(e) == [status |-> e, val |-> None]

(***************************************************************************)
(* The class hierarchy                                                     *)
(***************************************************************************)

\* the base class each class statement names
Bases ==
  [NavigationItem |-> "object", Link |-> "NavigationItem",
   RawTag |-> "NavigationItem", View |-> "Link", ImageView |-> "View",
   Separator |-> "NavigationItem", Subgroup |-> "NavigationItem",
   Text |-> "NavigationItem", Navbar |-> "Subgroup"]

\* the members each class body defines
ClassDict ==
  [NavigationItem |-> {"active", "render"},
   Link |-> {"__init__", "get_url"},
   RawTag |-> {"__init__"},
   View |-> {"__init__", "get_url", "active"},
   ImageView |-> {"__init__", "get_img_tag"},
   Separator |-> {},
   Subgroup |-> {"__init__", "active"},
   Text |-> {"__init__"},
   Navbar |-> {}]

\* the names bound at module level: the imports and the classes
ModuleGlobals ==
  {"url_for", "request", "current_app", "Markup", "get_renderer"}
    \cup DOMAIN Bases

RECURSIVE Lookup(_, _)
\* the class whose definition of `attr` an instance of `cls` uses (single
\* inheritance: the first class along the base chain that defines it)
Lookup(cls, attr) ==
  IF cls = "object" THEN "none"
  ELSE IF attr \in ClassDict[cls] THEN cls
  ELSE Lookup(Bases[cls], attr)

\* a base class whose items count as active by default
NavigationItemActiveTrue == TRUE

\* the class attribute NavigationItem.active
NavigationItem_active == FALSE

(***************************************************************************)
(* Constructors                                                            *)
(***************************************************************************)

\* dict.get(key, None)
DictGet(d, k) == IF k \in DOMAIN d THEN d[k] ELSE None

LinkInit(text, dest) == [cls |-> "Link", text |-> text, dest |-> dest]

RawTagInit(content, attribs) ==
  [cls |-> "RawTag", content |-> content, attribs |-> attribs]

ViewInit(text, endpoint, args, kwargs) ==
  [cls |-> "View", text |-> text, endpoint |-> endpoint,
   url_for_args |-> args, url_for_kwargs |-> kwargs]

ImageViewInit(img_info, endpoint, args, kwargs) ==
  [cls |-> "ImageView", text |-> None,
   img_src |-> DictGet(img_info, "src"),
   img_alt |-> DictGet(img_info, "alt"),
   img_width |-> DictGet(img_info, "width"),
   img_height |-> DictGet(img_info, "height"),
   img_class |-> DictGet(img_info, "class"),
   img_id |-> DictGet(img_info, "id"),
   endpoint |-> endpoint, url_for_args |-> args, url_for_kwargs |-> kwargs]

SeparatorInit == [cls |-> "Separator"]

TextInit(text) == [cls |-> "Text", text |-> text]

RECURSIVE Reversed(_)
\* a sequence back to front
Reversed(s) == IF s = <<>> THEN <<>> ELSE Append(Reversed(Tail(s)), Head(s))

\* a constructor that stores its items back to front
SubgroupInitReversed(cls, title, items) ==
  [cls |-> cls, title |-> title, items |-> Reversed(items)]

\* Subgroup.__init__ (Navbar inherits it): self.items = list(items)
SubgroupInit(cls, title, items) ==
  [cls |-> cls, title |-> title, items |-> items]

(***************************************************************************)
(* The objects the application builds, and the host framework's state      *)
(***************************************************************************)

Containers == {"nav", "sub"}

Leaves ==
  {"lnk", "vHome", "vAbout", "vItem", "vBad", "img", "img2", "raw", "sep",
   "txt"}

Objs == Containers \cup Leaves

\* the items the application appends to a container after constructing it
Pool(c) == IF c = "nav" THEN {"vBad", "sub"} ELSE {"vAbout", "txt"}

\* the item sequences the application passes to a container's constructor
CtorChoices(c) == IF c = "nav" THEN {<<>>, <<"vHome", "vAbout">>} ELSE {<<>>}

NoKwargs == [k \in {} |-> None]

\* the heap after the application's constructor calls, the containers built
\* from the item sequences cs
Built(cs) ==
  [o \in Objs |->
     CASE o = "nav" -> SubgroupInit("Navbar", "Main", cs["nav"])
       [] o = "sub" -> SubgroupInit("Subgroup", "More", cs["sub"])
       [] o = "lnk" -> LinkInit("Home", <<"/">>)
       [] o = "vHome" -> ViewInit("Home", "home", <<>>, NoKwargs)
       [] o = "vAbout" -> ViewInit("About", "about", <<>>, NoKwargs)
       [] o = "vItem" -> ViewInit("Item", "item", <<>>, [id |-> "1"])
       [] o = "vBad" -> ViewInit("Bad", "item", <<>>, NoKwargs)
       [] o = "img" ->
            ImageViewInit([src |-> "/x.png", alt |-> "X"], "home", <<>>,
                          NoKwargs)
       [] o = "img2" ->
            ImageViewInit([src |-> "/y.png", alt |-> "Y", width |-> "16",
                           height |-> "16", class |-> "logo", id |-> "y"],
                          "item", <<>>, [id |-> "2"])
       [] o = "raw" -> RawTagInit("<hr>", [class |-> "rule"])
       [] o = "sep" -> SeparatorInit
       [] o = "txt" -> TextInit("Menu")]

Endpoints == {"home", "about", "item"}

\* an endpoint no URL rule is registered for
NoRule == [prefix |-> None, param |-> None]

\* the URL rules the application may register for an endpoint: a static
\* prefix and, for "item", one converter <id>
RuleChoices(e) ==
  CASE e = "home" -> {[prefix |-> "/", param |-> None]}
    [] e = "about" ->
         {NoRule, [prefix |-> "/about", param |-> None],
          [prefix |-> "/info", param |-> None]}
    [] e = "item" -> {[prefix |-> "/item/", param |-> "id"]}

NoRequest == [current |-> FALSE, path |-> <<>>]

\* the paths a request may come in on
Paths ==
  {<<"/">>, <<"/about">>, <<"/info">>, <<"/item/", "1">>, <<"/item/", "2">>}

RECURSIVE QueryOf(_, _)
\* the query string url_for builds from the values no rule variable takes
QueryOf(kw, keys) ==
  IF keys = {} THEN <<>>
  ELSE LET k == CHOOSE x \in keys : TRUE
       IN <<"?", k, kw[k]>> \o QueryOf(kw, keys \ {k})

\* flask.url_for(endpoint, **values) in the current routing and request
\* state: positional values are a TypeError, no request context a
\* RuntimeError, an unknown endpoint or a missing rule variable a BuildError
UrlFor(endpoint, args, kwargs) ==
  IF Len(args) > 0 THEN Err("TypeError")
  ELSE IF ~request.current THEN Err("ContextError")
  ELSE IF endpoint \notin DOMAIN routes \/ routes[endpoint] = NoRule
       THEN Err("RoutingError")
  ELSE LET r == routes[endpoint]
           vals == IF r.param = None THEN {} ELSE {r.param}
       IN IF ~(vals \subseteq DOMAIN kwargs) THEN Err("RoutingError")
          ELSE Ok(<<r.prefix>>
                  \o (IF r.param = None THEN <<>> ELSE <<kwargs[r.param]>>)
                  \o QueryOf(kwargs, DOMAIN kwargs \ vals))

\* request.endpoint: the endpoint whose rule matches the request path
RequestEndpoint ==
  IF \E e \in Endpoints : routes[e].prefix = Head(request.path)
  THEN CHOOSE e \in Endpoints : routes[e].prefix = Head(request.path)
  ELSE None

(***************************************************************************)
(* get_url                                                                 *)
(***************************************************************************)

\* Link.get_url
LinkGetUrl(o) == Ok(heap[o].dest)

\* a get_url that passes the endpoint alone to url_for
ViewGetUrlNoValues(o) == UrlFor(heap[o].endpoint, <<>>, NoKwargs)

\* View.get_url
ViewGetUrl(o) ==
  UrlFor(heap[o].endpoint, heap[o].url_for_args, heap[o].url_for_kwargs)

\* o.get_url(), dispatched on o's class
GetUrlOf(o) ==
  LET impl == Lookup(heap[o].cls, "get_url")
  IN CASE impl = "Link" -> LinkGetUrl(o)
       [] impl = "View" -> ViewGetUrl(o)
       [] OTHER -> Err("AttributeError")

(***************************************************************************)
(* active                                                                  *)
(***************************************************************************)

\* an active that compares endpoints, not URLs
ViewActiveByEndpoint(o) ==
  IF ~request.current THEN Err("ContextError")
  ELSE Ok(RequestEndpoint = heap[o].endpoint)

\* an active that answers false where the comparison raises
ViewActiveSwallow(o) ==
  IF ~request.current THEN Ok(FALSE)
  ELSE LET u == GetUrlOf(o)
       IN IF u.status # "ok" THEN Ok(FALSE) ELSE Ok(request.path = u.val)

\* View.active: request.path == self.get_url(), the left operand first
ViewActive(o) ==
  IF ~request.current THEN Err("ContextError")
  ELSE LET u == GetUrlOf(o)
       IN IF u.status # "ok" THEN u ELSE Ok(request.path = u.val)

RECURSIVE ActiveOf(_), AnyActive(_)

\* an any() that looks at the first item only
AnyActiveFirstOnly(items) ==
  IF items = <<>> THEN Ok(FALSE) ELSE ActiveOf(Head(items))

\* any(item.active for item in items): the items in order, stopping at the
\* first that is active or raises
AnyActive(items) ==
  IF items = <<>> THEN Ok(FALSE)
  ELSE LET r == ActiveOf(Head(items))
       IN IF r.status # "ok" THEN r
          ELSE IF r.val THEN Ok(TRUE)
          ELSE AnyActive(Tail(items))

\* Subgroup.active
SubgroupActive(o) == AnyActive(heap[o].items)

\* o.active, dispatched on o's class
ActiveOf(o) ==
  LET impl == Lookup(heap[o].cls, "active")
  IN CASE impl = "NavigationItem" -> Ok(NavigationItem_active)
       [] impl = "View" -> ViewActive(o)
       [] impl = "Subgroup" -> SubgroupActive(o)
       [] OTHER -> Err("AttributeError")

(***************************************************************************)
(* ImageView.get_img_tag                                                   *)
(***************************************************************************)

\* whether o has the attribute: an instance field or a class member
HasAttr(o, name) ==
  name \in DOMAIN heap[o] \/ Lookup(heap[o].cls, name) # "none"

\* ImageView.get_img_tag: tags.img(src=self.img_sr, alt=..., _class=...,
\* _id=...); the callee `tags.img` is evaluated first, then the arguments
GetImgTag(o) ==
  IF "tags" \notin ModuleGlobals THEN Err("NameError")
  ELSE IF ~HasAttr(o, "img_sr") THEN Err("AttributeError")
  ELSE Ok([src |-> heap[o]["img_sr"], alt |-> heap[o].img_alt,
           class |-> heap[o].img_class, id |-> heap[o].img_id])

(***************************************************************************)
(* render and the renderer registry                                        *)
(***************************************************************************)

RendererNames == {"simple", "bootstrap"}

\* renderer classes; CustomRenderer is one the caller passes directly
Factories == {"SimpleRenderer", "BootstrapRenderer"}

RendererObjects == {"CustomRenderer"}

\* what a caller passes as render's renderer argument
RendererArgs == {None} \cup RendererNames \cup RendererObjects

\* the keyword options a caller passes to render
Options == {"{}", "{html5: True}"}

\* get_renderer(current_app, id): a renderer object is used as it is; a
\* name, or for None the application's default name, is looked up in the
\* application's registry, and an unregistered name is an error
GetRenderer(id) ==
  IF id \in RendererObjects THEN [status |-> "ok", val |-> id, lookup |-> <<>>]
  ELSE LET name == IF id = None THEN defaultName ELSE id
       IN IF name \in DOMAIN registry /\ registry[name] # None
          THEN [status |-> "ok", val |-> registry[name], lookup |-> <<name>>]
          ELSE [status |-> "ConfigurationError", val |-> None,
                lookup |-> <<name>>]

\* markupsafe.Markup(s): s marked safe, not escaped again
Markup(s) == [safe |-> TRUE, body |-> s]

\* renderer.visit(item): the markup the renderer produces for the item
Visit(renderer, item) == [by |-> renderer, of |-> item]

\* a render that falls back to the default renderer when the lookup fails
RenderFallback(o, renderer, kwargs) ==
  LET f == GetRenderer(renderer)
      g == IF f.status = "ok" THEN f ELSE GetRenderer(None)
  IN IF g.status # "ok"
     THEN [status |-> g.status, val |-> None, constructed |-> <<>>,
           visited |-> <<>>, lookup |-> f.lookup \o g.lookup]
     ELSE LET r == [cls |-> g.val, kwargs |-> kwargs]
          IN [status |-> "ok", val |-> Markup(Visit(r, o)),
              constructed |-> <<r>>, visited |-> <<o>>,
              lookup |-> IF f.status = "ok" THEN f.lookup
                         ELSE f.lookup \o g.lookup]

\* a render that always asks for the default renderer
RenderDefaultOnly(o, renderer, kwargs) ==
  LET f == GetRenderer(None)
  IN IF f.status # "ok"
     THEN [status |-> f.status, val |-> None, constructed |-> <<>>,
           visited |-> <<>>, lookup |-> f.lookup]
     ELSE LET r == [cls |-> f.val, kwargs |-> kwargs]
          IN [status |-> "ok", val |-> Markup(Visit(r, o)),
              constructed |-> <<r>>, visited |-> <<o>>, lookup |-> f.lookup]

\* NavigationItem.render:
\*   Markup(get_renderer(current_app, renderer)(**kwargs).visit(self))
\* with the renderers constructed, the items visited and the names looked up
RenderOutcome(o, renderer, kwargs) ==
  LET f == GetRenderer(renderer)
  IN IF f.status # "ok"
     THEN [status |-> f.status, val |-> None, constructed |-> <<>>,
           visited |-> <<>>, lookup |-> f.lookup]
     ELSE LET r == [cls |-> f.val, kwargs |-> kwargs]
          IN [status |-> "ok", val |-> Markup(Visit(r, o)),
              constructed |-> <<r>>, visited |-> <<o>>, lookup |-> f.lookup]

(***************************************************************************)
(* The state machine                                                       *)
(***************************************************************************)

\* the record of the latest call: what was called on which object with which
\* arguments, and its outcome
Called(op, o, out) ==
  [op |-> op, target |-> o, arg |-> None, opts |-> None,
   status |-> out.status, val |-> out.val, constructed |-> <<>>,
   visited |-> <<>>, lookup |-> <<>>]

NoCall == Called("none", None, Err(None))

Init ==
  /\ \E cs \in [Containers -> UNION {CtorChoices(c) : c \in Containers}] :
       /\ \A c \in Containers : cs[c] \in CtorChoices(c)
       /\ heap = Built(cs)
       /\ ctor = cs
  /\ appended = [c \in Containers |-> <<>>]
  /\ routes = [e \in Endpoints |->
                 IF e = "about" THEN [prefix |-> "/about", param |-> None]
                 ELSE CHOOSE r \in RuleChoices(e) : TRUE]
  /\ request = NoRequest
  /\ registry = [n \in RendererNames |->
                   IF n = "simple" THEN "SimpleRenderer" ELSE None]
  /\ defaultName = "simple"
  /\ last = NoCall

\* how many items have been appended so far
RECURSIVE TotalLen(_, _)
TotalLen(f, S) ==
  IF S = {} THEN 0
  ELSE LET c == CHOOSE x \in S : TRUE IN Len(f[c]) + TotalLen(f, S \ {c})

\* the application appends an item: c.items.append(x)
AppendItem(c, x) ==
  /\ TotalLen(appended, Containers) < MaxAppends
  /\ heap' = [heap EXCEPT ![c].items = Append(@, x)]
  /\ appended' = [appended EXCEPT ![c] = Append(@, x)]
  /\ last' = NoCall
  /\ UNCHANGED <<routes, request, registry, defaultName, ctor>>

\* the application registers, replaces or has not yet registered a URL rule
SetRoute(e, r) ==
  /\ routes' = [routes EXCEPT ![e] = r]
  /\ last' = NoCall
  /\ UNCHANGED <<heap, request, registry, defaultName, ctor, appended>>

\* a request on path p begins
BeginRequest(p) ==
  /\ request' = [current |-> TRUE, path |-> p]
  /\ last' = NoCall
  /\ UNCHANGED <<heap, routes, registry, defaultName, ctor, appended>>

\* the current request ends
EndRequest ==
  /\ request.current
  /\ request' = NoRequest
  /\ last' = NoCall
  /\ UNCHANGED <<heap, routes, registry, defaultName, ctor, appended>>

\* the application reads o.active
ReadActive(o) ==
  /\ last' = Called("active", o, ActiveOf(o))
  /\ UNCHANGED <<heap, routes, request, registry, defaultName, ctor, appended>>

\* the application calls o.get_url()
CallGetUrl(o) ==
  /\ Lookup(heap[o].cls, "get_url") # "none"
  /\ last' = Called("get_url", o, GetUrlOf(o))
  /\ UNCHANGED <<heap, routes, request, registry, defaultName, ctor, appended>>

\* the application calls o.get_img_tag()
CallGetImgTag(o) ==
  /\ Lookup(heap[o].cls, "get_img_tag") # "none"
  /\ last' = Called("get_img_tag", o, GetImgTag(o))
  /\ UNCHANGED <<heap, routes, request, registry, defaultName, ctor, appended>>

\* the application calls o.render(renderer, **kwargs)
CallRender(o, renderer, kwargs) ==
  /\ Lookup(heap[o].cls, "render") = "NavigationItem"
  /\ LET out == RenderOutcome(o, renderer, kwargs)
     IN last' = [op |-> "render", target |-> o, arg |-> renderer,
                 opts |-> kwargs, status |-> out.status, val |-> out.val,
                 constructed |-> out.constructed, visited |-> out.visited,
                 lookup |-> out.lookup]
  /\ UNCHANGED <<heap, routes, request, registry, defaultName, ctor, appended>>

\* the application registers renderer class f under name n
RegisterRenderer(n, f) ==
  /\ registry' = [registry EXCEPT ![n] = f]
  /\ last' = NoCall
  /\ UNCHANGED <<heap, routes, request, defaultName, ctor, appended>>

\* the application configures n as its default renderer name
SetDefault(n) ==
  /\ defaultName' = n
  /\ last' = NoCall
  /\ UNCHANGED <<heap, routes, request, registry, ctor, appended>>

\* building the tree, routing, requests, and the reads of active and URLs
Next ==
  \/ \E c \in Containers : \E x \in Pool(c) : AppendItem(c, x)
  \/ \E e \in Endpoints : \E r \in RuleChoices(e) : SetRoute(e, r)
  \/ \E p \in Paths : BeginRequest(p)
  \/ EndRequest
  \/ \E o \in Objs : ReadActive(o)
  \/ \E o \in Objs : CallGetUrl(o)
  \/ \E o \in Objs : CallGetImgTag(o)
  \/ \E o \in Objs : CallRender(o, None, "{}")

Spec == Init /\ [][Next]_vars

\* the renderer registry and render, on the trees as constructed
NextRender ==
  \/ \E n \in RendererNames : \E f \in Factories : RegisterRenderer(n, f)
  \/ \E n \in RendererNames : SetDefault(n)
  \/ \E o \in Objs : \E r \in RendererArgs : \E k \in Options :
       CallRender(o, r, k)

SpecRender == Init /\ [][NextRender]_vars

(***************************************************************************)
(* Properties                                                              *)
(***************************************************************************)

IsView(o) == heap[o].cls \in {"View", "ImageView"}

IsContainer(o) == heap[o].cls \in {"Subgroup", "Navbar"}

\* two outcomes are the same value or the same failure
SameOutcome(a, b) ==
  /\ a.status = b.status
  /\ a.status = "ok" => a.val = b.val

\* the latest call was `op`, on an object
Did(op) == last.op = op /\ last.target \in Objs

\* the items of o put in the order p, a permutation of their positions
Permuted(o, p) == [i \in 1..Len(heap[o].items) |-> heap[o].items[p[i]]]

\* no call changes the item tree
ReadsKeepTree == [][last'.op # "none" => heap' = heap]_vars

\* C1: with a request current, reading `active` on a View or an ImageView
\* yields true exactly when the request path equals what get_url() returns
\* in that same state, and false when it returns something else, whatever
\* changes of path and routing came before the read.
C1_ViewActive ==
  (Did("active") /\ IsView(last.target) /\ request.current
     /\ GetUrlOf(last.target).status = "ok")
    => /\ last.status = "ok"
       /\ last.val = (request.path = GetUrlOf(last.target).val)

\* a View reads as active on the path its endpoint got from a later rule
C1_Witness ==
  /\ Did("active") /\ last.target = "vAbout"
  /\ routes["about"].prefix = "/info"
  /\ last.status = "ok" /\ last.val = TRUE

\* C2: where every child's `active` evaluates, a Subgroup's or Navbar's
\* `active` is the OR of its current children's `active`, nested Subgroups
\* included, and false for an empty one; and Navbar("Main", View("Home",
\* "home"), View("About", "about")) on the URL of "about" has About active,
\* Home not active and the Navbar active.
C2_SubgroupActive ==
  /\ (Did("active") /\ IsContainer(last.target)
        /\ \A i \in 1..Len(heap[last.target].items) :
             ActiveOf(heap[last.target].items[i]).status = "ok")
       => /\ last.status = "ok"
          /\ last.val = (\E i \in 1..Len(heap[last.target].items) :
                           ActiveOf(heap[last.target].items[i]).val)
  /\ (Did("active") /\ last.target = "nav"
        /\ heap["nav"].items = <<"vHome", "vAbout">>
        /\ SameOutcome(ViewGetUrl("vAbout"), Ok(request.path)))
       => /\ SameOutcome(ActiveOf("vAbout"), Ok(TRUE))
          /\ SameOutcome(ActiveOf("vHome"), Ok(FALSE))
          /\ SameOutcome(last, Ok(TRUE))

\* a Navbar is active through a View nested in its Subgroup
C2_Witness ==
  /\ Did("active") /\ last.target = "nav"
  /\ heap["nav"].items = <<"sub">>
  /\ heap["sub"].items = <<"vAbout">>
  /\ last.status = "ok" /\ last.val = TRUE

\* C3 as stated: reading a container's `active` gives the same outcome, the
\* same boolean or the same failure, for every order of its items.
C3_AnyOrderSameOutcome ==
  (Did("active") /\ IsContainer(last.target))
    => \A p \in Permutations(1..Len(heap[last.target].items)) :
         SameOutcome(AnyActive(Permuted(last.target, p)), last)

\* C3: two orders of a container's items that both yield a boolean yield the
\* same one, and when no child's `active` raises every order yields that
\* boolean.
C3_AnyOrderSameBoolean ==
  (Did("active") /\ IsContainer(last.target))
    => \A p \in Permutations(1..Len(heap[last.target].items)) :
         LET r == AnyActive(Permuted(last.target, p))
         IN /\ (r.status = "ok" /\ last.status = "ok") => r.val = last.val
            /\ (\A i \in 1..Len(heap[last.target].items) :
                  ActiveOf(heap[last.target].items[i]).status = "ok")
                 => SameOutcome(r, last)

\* a Navbar whose second item is the active one, no item raising
C3_Witness ==
  /\ Did("active") /\ last.target = "nav"
  /\ heap["nav"].items = <<"vHome", "vAbout">>
  /\ request.current /\ routes["about"] # NoRule
  /\ last.status = "ok" /\ last.val = TRUE

\* C4: `active` is false on every RawTag, Separator, Text and plain Link,
\* whatever the request path and the routing table are.
C4_StaticInactive ==
  (Did("active")
     /\ heap[last.target].cls \in {"RawTag", "Separator", "Text", "Link"})
    => last.status = "ok" /\ last.val = FALSE

\* a Text inside a Subgroup read during a request
C4_Witness ==
  /\ Did("active") /\ last.target = "txt"
  /\ heap["sub"].items = <<"txt">>
  /\ request.current
  /\ last.val = FALSE

\* C5: a container's items are the constructor's items, in order, followed
\* by the appended items in append order, and no call of active, get_url,
\* get_img_tag or render changes them.
C5_ItemsInOrder ==
  /\ [](\A c \in Containers : heap[c].items = ctor[c] \o appended[c])
  /\ ReadsKeepTree

\* a Navbar built from two items, with two appended, after a read
C5_Witness ==
  /\ Did("active") /\ last.target = "nav"
  /\ heap["nav"].items = <<"vHome", "vAbout", "sub", "vBad">>

\* whether a renderer name is registered
Registered(n) == n \in DOMAIN registry /\ registry[n] # None

\* the latest call was a render naming an unregistered renderer that is not
\* the default
RenderUnregistered(l) ==
  /\ l.op = "render"
  /\ l.arg \notin RendererObjects \cup {None}
  /\ ~Registered(l.arg)
  /\ l.arg # defaultName

\* C6: render with a renderer name that is neither registered nor the
\* default fails with a configuration error: no renderer is constructed, no
\* item is visited, no markup is returned, no other renderer is used, and
\* the item tree and the registry stay as they were.
C6_UnregisteredFails ==
  /\ [](RenderUnregistered(last)
          => /\ last.status = "ConfigurationError"
             /\ last.val = None
             /\ last.constructed = <<>>
             /\ last.visited = <<>>
             /\ last.lookup = <<last.arg>>)
  /\ [][RenderUnregistered(last')
          => /\ heap' = heap
             /\ registry' = registry
             /\ defaultName' = defaultName]_vars

\* a render by a name that was never registered
C6_Witness ==
  /\ RenderUnregistered(last)
  /\ last.arg = "bootstrap" /\ last.target = "nav"
  /\ last.status = "ConfigurationError"

\* C7 as stated: an ImageView has text None and the six image fields of its
\* img_info, and get_img_tag() returns a tag with the stored src, alt, class
\* and id.
C7_ImgTag ==
  Did("get_img_tag")
    => /\ heap[last.target].text = None
       /\ last.status = "ok"
       /\ last.val = [src |-> heap[last.target].img_src,
                      alt |-> heap[last.target].img_alt,
                      class |-> heap[last.target].img_class,
                      id |-> heap[last.target].img_id]

\* the rule variables url_for needs for endpoint e
Required(e) == IF routes[e].param = None THEN {} ELSE {routes[e].param}

\* C8: View.get_url() returns what the routing facility resolves for the
\* stored endpoint and arguments in the state of the call, a URL under the
\* endpoint's current rule when the endpoint is registered and the
\* arguments match, and leaves the View as it was.
C8_GetUrlResolves ==
  /\ []((Did("get_url") /\ IsView(last.target))
          => LET v == heap[last.target]
             IN /\ SameOutcome(last, UrlFor(v.endpoint, v.url_for_args,
                                            v.url_for_kwargs))
                /\ (/\ request.current
                    /\ routes[v.endpoint] # NoRule
                    /\ v.url_for_args = <<>>
                    /\ DOMAIN v.url_for_kwargs = Required(v.endpoint))
                     => /\ last.status = "ok"
                        /\ last.val =
                             <<routes[v.endpoint].prefix>>
                               \o [i \in 1..Cardinality(Required(v.endpoint))
                                     |-> v.url_for_kwargs[
                                           routes[v.endpoint].param]])
  /\ ReadsKeepTree

\* get_url on a View with a rule variable, and on one whose rule changed
C8_Witness ==
  /\ Did("get_url") /\ last.target = "vAbout"
  /\ routes["about"].prefix = "/info"
  /\ last.status = "ok" /\ last.val = <<"/info">>

\* the first item of o whose `active` decides any(): every item before it
\* evaluates to false
Decides(o, i) ==
  \A j \in 1..(i - 1) : SameOutcome(ActiveOf(heap[o].items[j]), Ok(FALSE))

\* C9: get_url on a View with an unknown endpoint or a missing rule variable
\* fails with the routing error; `active` on a View with no request current
\* fails with the context error; `active` on a container fails with the
\* error of the first child its evaluation reaches that raises; and a
\* failing call leaves the item tree as it was.
C9_ErrorsPropagate ==
  /\ []((Did("get_url") /\ IsView(last.target) /\ request.current
           /\ heap[last.target].url_for_args = <<>>
           /\ \/ routes[heap[last.target].endpoint] = NoRule
              \/ ~(Required(heap[last.target].endpoint)
                     \subseteq DOMAIN heap[last.target].url_for_kwargs))
          => last.status = "RoutingError")
  /\ []((Did("active") /\ IsView(last.target) /\ ~request.current)
          => last.status = "ContextError")
  /\ []((Did("active") /\ IsContainer(last.target))
          => \A i \in 1..Len(heap[last.target].items) :
               (/\ ActiveOf(heap[last.target].items[i]).status # "ok"
                /\ Decides(last.target, i))
                 => last.status = ActiveOf(heap[last.target].items[i]).status)
  /\ ReadsKeepTree

\* a Navbar's `active` fails with the error of a View two levels down
C9_Witness ==
  /\ Did("active") /\ last.target = "nav"
  /\ heap["nav"].items = <<"sub">>
  /\ heap["sub"].items = <<"vAbout">>
  /\ request.current /\ routes["about"] = NoRule
  /\ last.status = "RoutingError"

\* C10: every render resolves its renderer in the state of that call: a
\* renderer object is used directly without a lookup, a name or (for none)
\* the current default name is looked up in the registry as it is then; the
\* renderer is constructed once with the options given and visits once the
\* item render was called on, and its markup is returned marked safe.
C10_LateBinding ==
  (last.op = "render"
     /\ (last.arg \in RendererObjects
           \/ Registered(IF last.arg = None THEN defaultName ELSE last.arg)))
    => LET name == IF last.arg = None THEN defaultName ELSE last.arg
           cls == IF last.arg \in RendererObjects THEN last.arg
                  ELSE registry[name]
           r == [cls |-> cls, kwargs |-> last.opts]
       IN /\ last.status = "ok"
          /\ last.lookup = IF last.arg \in RendererObjects THEN <<>>
                           ELSE <<name>>
          /\ last.constructed = <<r>>
          /\ last.visited = <<last.target>>
          /\ last.val = [safe |-> TRUE, body |-> [by |-> r, of |-> last.target]]

\* a render by default after the default name and its registration changed
C10_Witness ==
  /\ last.op = "render" /\ last.arg = None /\ last.target = "sub"
  /\ defaultName = "bootstrap"
  /\ registry["bootstrap"] = "BootstrapRenderer"
  /\ last.status = "ok"
  /\ last.constructed = <<[cls |-> "BootstrapRenderer",
                           kwargs |-> "{html5: True}"]>>

====
